---- MODULE Spec2Model ----
(***************************************************************************)
(* Credit-default inference service: artifact loading, schema validation   *)
(* and coercion, scoring, the prediction service, the HTTP controllers and *)
(* the process-wide service singleton.                                     *)
(*                                                                         *)
(* Probabilities and thresholds are counted in quarters (2 is 0.5).        *)
(* A pandas cell is a record [kind, num, txt]; a DataFrame is a record     *)
(* [columns, rows] with rows a sequence of functions column -> cell.       *)
(***************************************************************************)
EXTENDS Integers, Sequences, FiniteSets, TLC

VARIABLES
    disk,              \* the artifact files and the configuration of this deployment
    phase,             \* "boot", "serving" or "failed" (start-up raised)
    SERVICE_INSTANCE,  \* prediction_service._SERVICE_INSTANCE: None or a PredictionService
    request,           \* the HTTP request being served, or NoRequest
    response,          \* the HTTP response of that request, or NoResponse
    calls,             \* what the handler invoked (validator, estimator) and the
                       \* exception that ended the service call or the start-up
    pc,                \* per thread: its position in get_prediction_service
    built,             \* per thread: the PredictionService it is constructing
    got,               \* per thread: the service get_prediction_service returned to it
    constructed,       \* how many PredictionService objects have been constructed
    flight,            \* per handler coroutine: the request it serves, its local
                       \* frame, what score gave back, and its response
    loop,              \* the coroutine that holds the event loop across steps
                       \* (0: the loop is free to run any coroutine)
    behind             \* per coroutine: the coroutines that were being scored
                       \* when it started and still are (kept for the record)

\* the state of the concurrently served requests
inflight == <<flight, loop, behind>>

vars == <<disk, phase, SERVICE_INSTANCE, request, response, calls,
          pc, built, got, constructed, flight, loop, behind>>

(***************************************************************************)
(* Bounds of the model.                                                    *)
(***************************************************************************)
MaxRows == 2
MaxThreads == 2

(***************************************************************************)
(* Cells.                                                                  *)
(***************************************************************************)
NA == [kind |-> "null", num |-> 0, txt |-> ""]
IntCell(n) == [kind |-> "int", num |-> n, txt |-> ""]
FloatCell(n) == [kind |-> "float", num |-> n, txt |-> ""]
StrCell(s) == [kind |-> "str", num |-> 0, txt |-> s]

isnull(c) == c.kind = "null"

DigitChar == <<"0", "1", "2", "3", "4", "5", "6", "7", "8", "9">>

\* str(n) of a non-negative integer
RECURSIVE ToStr(_)
ToStr(n) == IF n < 10 THEN DigitChar[n + 1]
            ELSE ToStr(n \div 10) \o DigitChar[(n % 10) + 1]

\* the numbers the inputs of the model spell
Numbers == {0, 1, 7, 12}

\* a text that parses as a number
IsNumeric(s) == \E n \in Numbers : ToStr(n) = s
ParseNumber(s) == CHOOSE n \in Numbers : ToStr(n) = s

\* the texts the pattern ^\s*$ matches
IsBlank(s) == s \in {"", " "}

\* Series.astype(str) of one cell
AsStr(c) ==
    CASE c.kind = "int" -> ToStr(c.num)
      [] c.kind = "float" -> ToStr(c.num) \o ".0"
      [] c.kind = "str" -> c.txt
      [] OTHER -> "nan"

(***************************************************************************)
(* Sequence helpers.                                                       *)
(***************************************************************************)
Range(s) == {s[i] : i \in DOMAIN s}

RECURSIVE SetToSeq(_, _)
\* the members of S in the order of the sequence order
SetToSeq(S, order) ==
    IF order = <<>> THEN <<>>
    ELSE IF Head(order) \in S THEN <<Head(order)>> \o SetToSeq(S, Tail(order))
    ELSE SetToSeq(S, Tail(order))

\* a local variable: value is computed once and named in the rest of the body
Bind(value, Rest(_)) == Rest(value)

(***************************************************************************)
(* Exceptions: the class raised, its message, the names the message lists. *)
(***************************************************************************)
NoError == [cls |-> "none", msg |-> "", names |-> <<>>]
Raise(cls, msg, names) == [cls |-> cls, msg |-> msg, names |-> names]

\* exceptions.py: ValidationError is a ModelError
IsValidationError(e) == e.cls = "ValidationError"
IsModelError(e) == e.cls \in {"ModelError", "ValidationError"}

(***************************************************************************)
(* Artifact store: CreditDefaultModel.__init__ and its loaders.            *)
(***************************************************************************)
\* ModelSettings.id_column_name, the fallback identifier column
id_column_name == "ID"

\* the texts float() accepts among the thresholds of the model, in quarters
IsFloatText(s) == s \in {"0.5", "0.25"}
FloatOfText(s) == IF s = "0.5" THEN 2 ELSE 1

\* _load_estimator: the unpickled estimator, or ModelError when the file is absent
_load_estimator(d) ==
    IF ~d.model_exists
    THEN [err |-> Raise("ModelError", "Estimator artifact not found", <<>>),
          value |-> d.estimator]
    ELSE [err |-> NoError, value |-> d.estimator]

\* _load_json: ModelError when the file is absent
_load_json(exists) ==
    IF ~exists THEN Raise("ModelError", "JSON artifact not found", <<>>) ELSE NoError

\* float(metadata_threshold) of a JSON number or string
float(v) ==
    CASE v.kind = "int" -> [err |-> NoError, value |-> v.num]
      [] v.kind = "str" /\ IsFloatText(v.txt) -> [err |-> NoError, value |-> FloatOfText(v.txt)]
      [] OTHER -> [err |-> Raise("ValueError", "could not convert string to float", <<>>),
                   value |-> 0]

NoModel == [estimator |-> [n_classes |-> 0, raises |-> FALSE],
            expected_columns |-> <<>>, dtype_map |-> <<>>,
            threshold |-> 0, id_column |-> ""]

\* CreditDefaultModel.__init__: [err, model]; err = NoError when the instance exists
CreditDefaultModel(d) ==
    LET est == _load_estimator(d)
        sig == _load_json(d.signature_exists)
        meta == _load_json(d.metadata_exists)
        metadata_threshold == d.threshold
        thr == float(metadata_threshold)
    IN  IF est.err # NoError THEN [err |-> est.err, model |-> NoModel]
        ELSE IF sig # NoError THEN [err |-> sig, model |-> NoModel]
        ELSE IF meta # NoError THEN [err |-> meta, model |-> NoModel]
        ELSE IF isnull(metadata_threshold)
        THEN [err |-> Raise("ModelError",
                            "Model metadata does not declare a probability threshold",
                            <<>>),
              model |-> NoModel]
        ELSE IF thr.err # NoError THEN [err |-> thr.err, model |-> NoModel]
        ELSE [err |-> NoError,
              model |-> [estimator |-> est.value,
                         expected_columns |-> d.signature.expected_columns,
                         dtype_map |-> d.signature.dtypes,
                         threshold |-> thr.value,
                         id_column |-> IF d.signature.id_name # ""
                                       THEN d.signature.id_name
                                       ELSE id_column_name]]

(***************************************************************************)
(* Schema validator and coercer: CreditDefaultModel._prepare_features.     *)
(***************************************************************************)
NoFrame == [columns |-> <<>>, rows |-> <<>>]

\* the projection that keeps the columns of the frame that are not expected
\* (other than the fallback identifier column) after the expected ones
ProjectKeepingExtras(frame, cols) ==
    Bind(cols \o SelectSeq(frame.columns,
                           LAMBDA c : c \notin Range(cols) /\ c # id_column_name),
    LAMBDA kept :
    [columns |-> kept,
     rows |-> [i \in DOMAIN frame.rows |-> [c \in Range(kept) |-> frame.rows[i][c]]]])

\* frame[cols]: the projection onto cols, in the order of cols
Project(frame, cols) ==
    [columns |-> cols,
     rows |-> [i \in DOMAIN frame.rows |-> [c \in Range(cols) |-> frame.rows[i][c]]]]

\* features.replace(r"^\s*$", pd.NA, regex=True)
ReplaceBlank(frame) ==
    [frame EXCEPT !.rows =
        [i \in DOMAIN frame.rows |->
            [c \in DOMAIN frame.rows[i] |->
                IF frame.rows[i][c].kind = "str" /\ IsBlank(frame.rows[i][c].txt)
                THEN NA ELSE frame.rows[i][c]]]]

\* frame[column] as a sequence of cells
Column(frame, column) == [i \in DOMAIN frame.rows |-> frame.rows[i][column]]

\* features[column] = cells
SetColumn(frame, column, cells) ==
    [frame EXCEPT !.rows =
        [i \in DOMAIN frame.rows |-> [frame.rows[i] EXCEPT ![column] = cells[i]]]]

\* pd.to_numeric(series, errors="raise"): numeric texts are parsed, nulls become
\* NaN (which makes the whole series float64), any other text raises ValueError
to_numeric(cells) ==
    LET parsed == [i \in DOMAIN cells |->
                     IF cells[i].kind = "str" THEN IntCell(ParseNumber(cells[i].txt))
                     ELSE cells[i]]
        floating == \E i \in DOMAIN cells : cells[i].kind \in {"null", "float"}
    IN  IF \E i \in DOMAIN cells : cells[i].kind = "str" /\ ~IsNumeric(cells[i].txt)
        THEN [err |-> Raise("ValueError", "Unable to parse string", <<>>), cells |-> cells]
        ELSE [err |-> NoError,
              cells |-> [i \in DOMAIN cells |->
                           IF floating /\ parsed[i].kind = "int"
                           THEN FloatCell(parsed[i].num) ELSE parsed[i]]]

\* Series.astype("int64"): NaN cannot be cast (IntCastingNaNError, a ValueError)
astype_int64(cells) ==
    IF \E i \in DOMAIN cells : isnull(cells[i])
    THEN [err |-> Raise("ValueError", "Cannot convert non-finite values to integer", <<>>),
          cells |-> cells]
    ELSE [err |-> NoError, cells |-> [i \in DOMAIN cells |-> IntCell(cells[i].num)]]

\* Series.astype("float64"): NaN stays NaN
astype_float64(cells) ==
    [err |-> NoError,
     cells |-> [i \in DOMAIN cells |->
                  IF isnull(cells[i]) THEN NA ELSE FloatCell(cells[i].num)]]

\* dtype.startswith("int"), dtype.startswith("float") over the spellings in use
StartsWithInt(dtype) == dtype \in {"int", "int64"}
StartsWithFloat(dtype) == dtype \in {"float", "float64"}

\* the body of the loop over self._dtype_map.items() for one (column, dtype)
CoerceColumn(features, column, dtype) ==
    IF column \notin Range(features.columns)
    THEN [err |-> NoError, features |-> features]
    ELSE IF StartsWithInt(dtype)
    THEN Bind(to_numeric(Column(features, column)), LAMBDA num :
         IF num.err # NoError THEN [err |-> num.err, features |-> features]
         ELSE Bind(astype_int64(num.cells), LAMBDA cast :
              IF cast.err # NoError THEN [err |-> cast.err, features |-> features]
              ELSE [err |-> NoError,
                    features |-> SetColumn(features, column, cast.cells)]))
    ELSE IF StartsWithFloat(dtype)
    THEN Bind(to_numeric(Column(features, column)), LAMBDA num :
         IF num.err # NoError THEN [err |-> num.err, features |-> features]
         ELSE [err |-> NoError,
               features |-> SetColumn(features, column, astype_float64(num.cells).cells)])
    ELSE IF dtype = "category"
    THEN [err |-> NoError, features |-> features]
    ELSE [err |-> Raise("ValidationError", "Unsupported dtype", <<dtype, column>>),
          features |-> features]

RECURSIVE CoerceFrom(_, _, _)
\* the loop over self._dtype_map.items(), from entry k on: the first raise ends it
CoerceFrom(dtype_map, features, k) ==
    IF k > Len(dtype_map) THEN [err |-> NoError, features |-> features]
    ELSE Bind(CoerceColumn(features, dtype_map[k][1], dtype_map[k][2]), LAMBDA step :
         IF step.err # NoError THEN step
         ELSE CoerceFrom(dtype_map, step.features, k + 1))

\* what _prepare_features gives back when it raises e
PrepareFails(e) == [err |-> e, features |-> NoFrame, identifiers |-> <<>>]

\* the null check left out
AnyNullNever(features) == FALSE

\* features.isnull().any(axis=1).any()
AnyNull(features) ==
    \E i \in DOMAIN features.rows :
        \E c \in DOMAIN features.rows[i] : isnull(features.rows[i][c])

\* the list of expected columns the frame lacks, in the signature's order
MissingColumns(m, frame) ==
    SelectSeq(m.expected_columns, LAMBDA c : c \notin Range(frame.columns))

\* _prepare_features from the projection on: coercion, the null check of the
\* features and the null check of the identifiers
CoerceAndCheck(m, frame) ==
    Bind(CoerceFrom(m.dtype_map, ReplaceBlank(Project(frame, m.expected_columns)), 1),
    LAMBDA coerced :
    IF coerced.err # NoError
    THEN PrepareFails(coerced.err)
    ELSE IF AnyNull(coerced.features)
    THEN PrepareFails(Raise("ValidationError",
                            "Input payload contains missing values", <<>>))
    ELSE Bind(Column(frame, m.id_column), LAMBDA identifiers :
         IF \E i \in DOMAIN identifiers : isnull(identifiers[i])
         THEN PrepareFails(Raise("ValidationError",
                                 "Identifier column contains missing values", <<>>))
         ELSE [err |-> NoError,
               features |-> coerced.features,
               identifiers |-> [i \in DOMAIN identifiers |->
                                  StrCell(AsStr(identifiers[i]))]]))

\* the expected columns looked for before the identifier and the label column
PrepareFeaturesColumnsFirst(m, frame) ==
    IF MissingColumns(m, frame) # <<>>
    THEN PrepareFails(Raise("ValidationError", "Missing columns", MissingColumns(m, frame)))
    ELSE IF m.id_column \notin Range(frame.columns)
    THEN PrepareFails(Raise("ValidationError", "Missing identifier column",
                            <<m.id_column>>))
    ELSE IF "default" \in Range(frame.columns)
    THEN PrepareFails(Raise("ValidationError", "Column 'default' is not allowed", <<>>))
    ELSE CoerceAndCheck(m, frame)

\* _prepare_features: [err, features, identifiers]
_prepare_features(m, frame) ==
    IF m.id_column \notin Range(frame.columns)
    THEN PrepareFails(Raise("ValidationError", "Missing identifier column",
                            <<m.id_column>>))
    ELSE IF "default" \in Range(frame.columns)
    THEN PrepareFails(Raise("ValidationError", "Column 'default' is not allowed", <<>>))
    ELSE IF MissingColumns(m, frame) # <<>>
    THEN PrepareFails(Raise("ValidationError", "Missing columns", MissingColumns(m, frame)))
    ELSE CoerceAndCheck(m, frame)

(***************************************************************************)
(* Scorer: the estimator, CreditDefaultModel._predict_proba and score.     *)
(***************************************************************************)
\* probability mass is counted in quarters: a row of predict_proba sums to ProbOne
ProbOne == 4

RECURSIVE SumCells(_, _)
SumCells(row, cols) ==
    IF cols = <<>> THEN 0
    ELSE (IF row[Head(cols)].kind \in {"int", "float"} THEN row[Head(cols)].num ELSE 0)
         + SumCells(row, Tail(cols))

\* the estimator is opaque: a fixed function of the feature row with n_classes
\* columns per row, the second one the positive class of a binary estimator
estimator_predict_proba(est, features) ==
    LET p(i) == LET t == SumCells(features.rows[i], features.columns)
                IN  IF t > ProbOne THEN ProbOne ELSE t
    IN  IF est.raises
        THEN [err |-> Raise("RuntimeError", "estimator failed", <<>>), matrix |-> <<>>]
        ELSE [err |-> NoError,
              matrix |-> [i \in DOMAIN features.rows |->
                            CASE est.n_classes = 1 -> <<ProbOne>>
                              [] est.n_classes = 2 -> <<ProbOne - p(i), p(i)>>
                              [] OTHER -> <<ProbOne - p(i), p(i) \div 2, p(i) - (p(i) \div 2)>>]]

\* _predict_proba: probabilities[:, 1] of the estimator's output
_predict_proba(m, features) ==
    Bind(estimator_predict_proba(m.estimator, features), LAMBDA out :
    IF out.err # NoError THEN [err |-> out.err, probabilities |-> <<>>]
    ELSE IF m.estimator.n_classes < 2
    THEN [err |-> Raise("IndexError", "index 1 is out of bounds for axis 1", <<>>),
          probabilities |-> <<>>]
    ELSE [err |-> NoError,
          probabilities |-> [i \in DOMAIN out.matrix |-> out.matrix[i][2]]])

\* the comparison made strict
IsDefaultStrict(probability, threshold) == probability > threshold

\* result["is_default"] = result["probability"] >= self._threshold
is_default(probability, threshold) == probability >= threshold

\* the identifiers attached in the opposite order
ResultRowsReversed(identifiers, probabilities, threshold) ==
    [i \in DOMAIN probabilities |->
        [id |-> AsStr(identifiers[Len(identifiers) + 1 - i]),
         probability |-> probabilities[i],
         is_default |-> is_default(probabilities[i], threshold)]]

\* the rows of the result frame of score, built on features.index
ResultRows(identifiers, probabilities, threshold) ==
    [i \in DOMAIN probabilities |->
        [id |-> AsStr(identifiers[i]),
         probability |-> probabilities[i],
         is_default |-> is_default(probabilities[i], threshold)]]

\* score: [err, records, estimated, invocations, features]; features is the frame
\* handed to the estimator (NoFrame when the estimator was not invoked) and
\* invocations the number of calls of predict_proba the scoring made
score(m, frame) ==
    Bind(_prepare_features(m, frame), LAMBDA prep :
    IF prep.err # NoError
    THEN [err |-> prep.err, records |-> <<>>, estimated |-> FALSE, invocations |-> 0,
          features |-> NoFrame]
    ELSE Bind(_predict_proba(m, prep.features), LAMBDA proba :
         IF proba.err # NoError
         THEN [err |-> proba.err, records |-> <<>>, estimated |-> TRUE,
               invocations |-> 1, features |-> prep.features]
         ELSE [err |-> NoError,
               records |-> ResultRows(prep.identifiers, proba.probabilities, m.threshold),
               estimated |-> TRUE,
               invocations |-> 1,
               features |-> prep.features]))

(***************************************************************************)
(* Orchestration: PredictionService and the HTTP controllers.              *)
(***************************************************************************)
\* Settings.max_batch_rows of the deployment
max_batch_rows(d) == d.max_batch_rows

\* pd.read_csv: a column whose texts are all numeric is int64; with empty texts
\* among them it is float64 with NaN; any other column keeps its texts (empty: NaN)
read_csv(table) ==
    LET numeric(c) == \A i \in DOMAIN table.rows :
                          table.rows[i][c] = "" \/ IsNumeric(table.rows[i][c])
        holes(c) == \E i \in DOMAIN table.rows : table.rows[i][c] = ""
        cell(c, t) == IF t = "" THEN NA
                      ELSE IF ~numeric(c) THEN StrCell(t)
                      ELSE IF holes(c) THEN FloatCell(ParseNumber(t))
                      ELSE IntCell(ParseNumber(t))
    IN  [columns |-> table.header,
         rows |-> [i \in DOMAIN table.rows |->
                     [c \in Range(table.header) |-> cell(c, table.rows[i][c])]]]

\* _read_input_file: by the extension of the file name
_read_input_file(upload) ==
    IF upload.extension \in {".csv", ".xls"}
    THEN [err |-> NoError, dataframe |-> read_csv(upload.table)]
    ELSE [err |-> Raise("PredictionError", "Only CSV and XLS files are supported", <<>>),
          dataframe |-> NoFrame]

\* what a service call reports: the exception it raised (or NoError), the records
\* it returned, whether model.score ran, whether and how often the estimator was
\* invoked, and the frame the estimator was given
Outcome(err, records, validated, estimated, invocations, features) ==
    [err |-> err, records |-> records, validated |-> validated,
     estimated |-> estimated, invocations |-> invocations, features |-> features]

\* every exception of model.score turned into a PredictionError
TranslateEverything(e) == Raise("PredictionError", e.msg, e.names)

\* the except clauses around model.score: a ValidationError becomes a
\* PredictionError with the same text, anything else propagates unchanged
Translate(e) ==
    IF IsValidationError(e) THEN Raise("PredictionError", e.msg, e.names) ELSE e

\* pd.DataFrame([payload]): one row, the keys of the payload its columns
SingleFrame(payload) == [columns |-> payload.keys, rows |-> <<payload.values>>]

\* predict_single once the awaited score has returned or raised
AfterScoreSingle(m, scored) ==
    IF scored.err # NoError
    THEN Outcome(Translate(scored.err), <<>>, TRUE, scored.estimated,
                      scored.invocations, scored.features)
    ELSE Bind(scored.records[1], LAMBDA row :
         Outcome(NoError,
                 <<[id |-> row.id, probability |-> row.probability,
                    is_default |-> row.is_default, threshold |-> m.threshold]>>,
                 TRUE, TRUE, scored.invocations, scored.features))

\* PredictionService.predict_single
service_predict_single(m, payload) ==
    Bind(score(m, SingleFrame(payload)), LAMBDA scored : AfterScoreSingle(m, scored))

\* the guard off by one
ExceedsLimitOffByOne(rows, limit) == rows >= limit

\* len(dataframe) > settings.max_batch_rows
ExceedsLimit(rows, limit) == rows > limit

\* the PredictionError of a batch above the limit
BatchTooLarge(dataframe, limit) ==
    Outcome(Raise("PredictionError", "Batch size exceeds limit",
                  <<ToStr(Len(dataframe.rows)), ToStr(limit)>>),
            <<>>, FALSE, FALSE, 0, NoFrame)

\* predict_batch once the awaited score has returned or raised
AfterScoreBatch(scored) ==
    IF scored.err # NoError
    THEN Outcome(Translate(scored.err), <<>>, TRUE, scored.estimated,
                 scored.invocations, scored.features)
    ELSE Outcome(NoError, scored.records, TRUE, TRUE, scored.invocations,
                 scored.features)

\* what predict_batch does with the parsed dataframe
ScoreBatch(m, dataframe, limit) ==
    IF ExceedsLimit(Len(dataframe.rows), limit)
    THEN BatchTooLarge(dataframe, limit)
    ELSE Bind(score(m, dataframe), LAMBDA scored : AfterScoreBatch(scored))

\* PredictionService.predict_batch
service_predict_batch(m, upload, limit) ==
    Bind(_read_input_file(upload), LAMBDA read :
    IF read.err # NoError
    THEN Outcome(read.err, <<>>, FALSE, FALSE, 0, NoFrame)
    ELSE ScoreBatch(m, read.dataframe, limit))

\* SinglePredictionDTO: ID is Optional[int] with default 1, the features are
\* required numbers, extra keys are ignored (extra="ignore")
DtoRequired == <<"LIMIT_BAL", "AGE">>
DtoNumber(v) == v.kind \in {"int", "float"} \/ (v.kind = "str" /\ IsNumeric(v.txt))
DtoValue(v) == IF v.kind = "str" THEN ParseNumber(v.txt) ELSE v.num

DtoValid(body) ==
    /\ \A f \in Range(DtoRequired) : f \in Range(body.keys) /\ DtoNumber(body.values[f])
    /\ "ID" \in Range(body.keys) => (isnull(body.values["ID"]) \/ DtoNumber(body.values["ID"]))

\* payload.model_dump(): the declared fields, in declaration order
model_dump(body) ==
    [keys |-> <<"ID">> \o DtoRequired,
     values |-> [f \in {"ID"} \cup Range(DtoRequired) |->
                   IF f = "ID"
                   THEN IF "ID" \notin Range(body.keys) THEN IntCell(1)
                        ELSE IF isnull(body.values["ID"]) THEN NA
                        ELSE IntCell(DtoValue(body.values["ID"]))
                   ELSE IF f = "LIMIT_BAL" THEN FloatCell(DtoValue(body.values[f]))
                   ELSE IntCell(DtoValue(body.values[f]))]]

\* the HTTP response of a controller: PredictionError is 422 with its text, any
\* other exception is 500 with the fixed text of the endpoint
NoResponse == [status |-> 0, detail |-> "", names |-> <<>>, records |-> <<>>]
Respond(out, fixed) ==
    IF out.err = NoError
    THEN [status |-> 200, detail |-> "", names |-> <<>>, records |-> out.records]
    ELSE IF out.err.cls = "PredictionError"
    THEN [status |-> 422, detail |-> out.err.msg, names |-> out.err.names, records |-> <<>>]
    ELSE [status |-> 500, detail |-> fixed, names |-> <<>>, records |-> <<>>]

NoOutcome == Outcome(NoError, <<>>, FALSE, FALSE, 0, NoFrame)

\* what the request made the service do (kept for the audit of one request)
Audit(out) == [validated |-> out.validated, estimated |-> out.estimated,
               invocations |-> out.invocations,
               features |-> out.features, err |-> out.err]

\* controller predict_single: the body is validated against the DTO before the
\* handler runs (FastAPI answers 422 itself when it is not valid)
controller_predict_single(m, body) ==
    IF ~DtoValid(body)
    THEN [response |-> [status |-> 422, detail |-> "Request validation failed",
                        names |-> <<>>, records |-> <<>>],
          audit |-> Audit(NoOutcome)]
    ELSE Bind(service_predict_single(m, model_dump(body)), LAMBDA out :
         [response |-> Respond(out, "Prediction failed."), audit |-> Audit(out)])

\* controller predict_batch
controller_predict_batch(m, upload, limit) ==
    Bind(service_predict_batch(m, upload, limit), LAMBDA out :
    [response |-> Respond(out, "Batch prediction failed."), audit |-> Audit(out)])

(***************************************************************************)
(* Deployments: the artifacts on disk and the settings of one process.     *)
(***************************************************************************)
BaseSignature ==
    [expected_columns |-> <<"LIMIT_BAL", "AGE">>,
     dtypes |-> <<<<"LIMIT_BAL", "float">>, <<"AGE", "int">>>>,
     id_name |-> "ID"]

\* the same columns declared the other way round, without an id_name
SwappedSignature ==
    [expected_columns |-> <<"LIMIT_BAL", "AGE">>,
     dtypes |-> <<<<"AGE", "float64">>, <<"LIMIT_BAL", "int64">>>>,
     id_name |-> ""]

Good ==
    [model_exists |-> TRUE, signature_exists |-> TRUE, metadata_exists |-> TRUE,
     estimator |-> [n_classes |-> 2, raises |-> FALSE],
     signature |-> BaseSignature,
     threshold |-> IntCell(2),
     max_batch_rows |-> MaxRows]

\* deployments whose artifacts load: Good, and Good changed in one respect
Healthy ==
    {Good}
    \cup {[Good EXCEPT !.threshold = StrCell("0.25")]}
    \cup {[Good EXCEPT !.estimator = e] :
            e \in {[n_classes |-> 1, raises |-> FALSE],
                   [n_classes |-> 3, raises |-> FALSE],
                   [n_classes |-> 2, raises |-> TRUE]}}
    \cup {[Good EXCEPT !.signature = SwappedSignature]}
    \cup {[Good EXCEPT !.max_batch_rows = MaxRows - 1]}

\* deployments with any of the three files absent and any metadata threshold
Installed ==
    {[Good EXCEPT !.model_exists = a, !.signature_exists = b,
                  !.metadata_exists = c, !.threshold = t] :
        a \in BOOLEAN, b \in BOOLEAN, c \in BOOLEAN,
        t \in {IntCell(2), NA, StrCell("high")}}

Deployments == Healthy \cup Installed

(***************************************************************************)
(* Requests: uploaded tables and JSON bodies.                              *)
(***************************************************************************)
AllColumns == <<"ID", "LIMIT_BAL", "AGE", "default", "EXTRA">>

\* the texts a cell of a column takes in the uploads of the model
TextOf(c) ==
    CASE c = "ID" -> {"7", "12", ""}
      [] c = "AGE" -> {"0", "1", "", " ", "abc"}
      [] OTHER -> {"1"}

Headers == {SetToSeq(S, AllColumns) : S \in SUBSET Range(AllColumns)}

RECURSIVE TableRows(_)
\* the rows over a header: one text of its column in each cell
TableRows(header) ==
    IF header = <<>> THEN {<<>>}
    ELSE {[c \in Range(header) |-> IF c = Head(header) THEN t ELSE r[c]] :
            t \in TextOf(Head(header)), r \in TableRows(Tail(header))}

Tables ==
    UNION {{[header |-> h, rows |-> rs] :
              rs \in UNION {[1..n -> TableRows(h)] : n \in 0..MaxRows}} : h \in Headers}

Uploads ==
    {[extension |-> ".csv", table |-> t] : t \in Tables}
    \cup {[extension |-> ".txt", table |-> t] : t \in {u \in Tables : u.rows = <<>>}}

\* the JSON value a text stands for in a request body
JsonOf(t) == IF t = "" THEN NA
             ELSE IF IsNumeric(t) THEN IntCell(ParseNumber(t)) ELSE StrCell(t)

Bodies ==
    UNION {{[keys |-> h, values |-> [c \in Range(h) |-> JsonOf(r[c])]] :
              r \in TableRows(h)} : h \in Headers}

NoBody == [keys |-> <<>>, values |-> <<>>]
NoUpload == [extension |-> "", table |-> [header |-> <<>>, rows |-> <<>>]]
NoRequest == [endpoint |-> "none", body |-> NoBody, upload |-> NoUpload]
NoAudit == Audit(NoOutcome)
None == [id |-> 0, model |-> NoModel]

\* a handler coroutine that serves no request
NoScore == [err |-> NoError, records |-> <<>>, estimated |-> FALSE,
            invocations |-> 0, features |-> NoFrame]
NoFlight == [stage |-> "idle", request |-> NoRequest, frame |-> NoFrame,
             scored |-> NoScore, response |-> NoResponse, audit |-> NoAudit]

(***************************************************************************)
(* The process: start-up, then requests served one after another.          *)
(***************************************************************************)
\* the worker threads that resolve the dependency of a request
Threads == 1..MaxThreads

Init ==
    /\ disk \in Deployments
    /\ phase = "boot"
    /\ SERVICE_INSTANCE = None
    /\ request = NoRequest
    /\ response = NoResponse
    /\ calls = NoAudit
    /\ pc = [t \in Threads |-> "idle"]
    /\ built = [t \in Threads |-> None]
    /\ got = [t \in Threads |-> None]
    /\ constructed = 0
    /\ flight = [f \in Threads |-> NoFlight]
    /\ loop = 0
    /\ behind = [f \in Threads |-> {}]

\* PredictionService.__init__ on top of CreditDefaultModel.__init__
PredictionService(d, n) ==
    LET loaded == CreditDefaultModel(d)
    IN  [err |-> loaded.err, service |-> [id |-> n, model |-> loaded.model]]

\* lifespan: get_prediction_service() before the first request is accepted
Lifespan ==
    /\ phase = "boot"
    /\ LET new == PredictionService(disk, constructed + 1)
       IN  IF new.err # NoError
           THEN /\ phase' = "failed"
                /\ calls' = [NoAudit EXCEPT !.err = new.err]
                /\ UNCHANGED <<SERVICE_INSTANCE, constructed>>
           ELSE /\ phase' = "serving"
                /\ SERVICE_INSTANCE' = new.service
                /\ constructed' = constructed + 1
                /\ UNCHANGED calls
    /\ UNCHANGED <<inflight, disk, request, response, pc, built, got>>

\* POST /api/v1/predictions
PredictSingle(body) ==
    /\ LET done == controller_predict_single(SERVICE_INSTANCE.model, body)
       IN  /\ request' = [NoRequest EXCEPT !.endpoint = "single", !.body = body]
           /\ response' = done.response
           /\ calls' = done.audit
    /\ UNCHANGED <<inflight, disk, phase, SERVICE_INSTANCE, pc, built, got, constructed>>

\* POST /api/v1/predictions/batch
PredictBatch(upload) ==
    /\ LET done == controller_predict_batch(SERVICE_INSTANCE.model, upload,
                                            max_batch_rows(disk))
       IN  /\ request' = [NoRequest EXCEPT !.endpoint = "batch", !.upload = upload]
           /\ response' = done.response
           /\ calls' = done.audit
    /\ UNCHANGED <<inflight, disk, phase, SERVICE_INSTANCE, pc, built, got, constructed>>

\* the response has been sent: nothing of the request is kept
Complete ==
    /\ request # NoRequest
    /\ request' = NoRequest
    /\ response' = NoResponse
    /\ calls' = NoAudit
    /\ UNCHANGED <<inflight, disk, phase, SERVICE_INSTANCE, pc, built, got, constructed>>

\* the server accepts a request: it has started and serves no other one
Accepting == phase = "serving" /\ request = NoRequest

Next ==
    \/ Lifespan
    \/ Accepting /\ \E body \in Bodies : PredictSingle(body)
    \/ Accepting /\ \E upload \in Uploads : PredictBatch(upload)
    \/ Complete

Spec == Init /\ [][Next]_vars

(***************************************************************************)
(* get_prediction_service, run by FastAPI on a worker thread for each       *)
(* request (it is a plain def dependency): the read of the global, the      *)
(* construction and the assignment are separate steps of a thread.          *)
(***************************************************************************)
\* TestClient(app) outside a with block, as in tests/test_api.py: the lifespan
\* handler, and with it the warm-up, never runs
NoLifespan ==
    /\ phase = "boot"
    /\ phase' = "serving"
    /\ UNCHANGED <<inflight, disk, SERVICE_INSTANCE, request, response, calls,
                   pc, built, got, constructed>>

\* if _SERVICE_INSTANCE is None
Check(t) ==
    /\ phase = "serving"
    /\ pc[t] = "idle"
    /\ pc' = [pc EXCEPT ![t] = IF SERVICE_INSTANCE = None THEN "construct" ELSE "return"]
    /\ UNCHANGED <<inflight, disk, phase, SERVICE_INSTANCE, request, response, calls,
                   built, got, constructed>>

\* PredictionService(): loads the artifacts; an exception ends the request
Construct(t) ==
    /\ pc[t] = "construct"
    /\ LET new == PredictionService(disk, constructed + 1)
       IN  IF new.err # NoError
           THEN /\ pc' = [pc EXCEPT ![t] = "raised"]
                /\ UNCHANGED <<built, constructed>>
           ELSE /\ pc' = [pc EXCEPT ![t] = "assign"]
                /\ built' = [built EXCEPT ![t] = new.service]
                /\ constructed' = constructed + 1
    /\ UNCHANGED <<inflight, disk, phase, SERVICE_INSTANCE, request, response, calls, got>>

\* _SERVICE_INSTANCE = <the new service>
Assign(t) ==
    /\ pc[t] = "assign"
    /\ SERVICE_INSTANCE' = built[t]
    /\ pc' = [pc EXCEPT ![t] = "return"]
    /\ UNCHANGED <<inflight, disk, phase, request, response, calls, built, got, constructed>>

\* return _SERVICE_INSTANCE: the global is read again
Return(t) ==
    /\ pc[t] = "return"
    /\ got' = [got EXCEPT ![t] = SERVICE_INSTANCE]
    /\ pc' = [pc EXCEPT ![t] = "done"]
    /\ UNCHANGED <<inflight, disk, phase, SERVICE_INSTANCE, request, response, calls,
                   built, constructed>>

\* the request of the thread is over: the thread takes the next one
Finish(t) ==
    /\ pc[t] \in {"done", "raised"}
    /\ pc' = [pc EXCEPT ![t] = "idle"]
    /\ built' = [built EXCEPT ![t] = None]
    /\ got' = [got EXCEPT ![t] = None]
    /\ UNCHANGED <<inflight, disk, phase, SERVICE_INSTANCE, request, response, calls, constructed>>

NextSingleton ==
    \/ Lifespan
    \/ NoLifespan
    \/ \E t \in Threads : Check(t)
    \/ \E t \in Threads : Construct(t)
    \/ \E t \in Threads : Assign(t)
    \/ \E t \in Threads : Return(t)
    \/ \E t \in Threads : Finish(t)

SpecSingleton == Init /\ [][NextSingleton]_vars

(***************************************************************************)
(* Requests served concurrently.  A handler is a coroutine of the event     *)
(* loop: it runs on the loop up to its await of asyncio.to_thread, the      *)
(* worker thread runs model.score on the coroutine's own frame, and the     *)
(* coroutine resumes on the loop with what score returned or raised.        *)
(***************************************************************************)
\* the requests of the concurrent clients
ConcurrentBodies ==
    {[keys |-> <<"ID", "LIMIT_BAL", "AGE">>,
      values |-> [c \in {"ID", "LIMIT_BAL", "AGE"} |->
                    IF c = "ID" THEN IntCell(7) ELSE IF c = "AGE" THEN a ELSE IntCell(1)]] :
        a \in {IntCell(1), StrCell("abc")}}

ConcurrentRow(id, age) ==
    [c \in {"ID", "LIMIT_BAL", "AGE"} |->
        IF c = "ID" THEN id ELSE IF c = "AGE" THEN age ELSE "1"]

ConcurrentUploads ==
    {[extension |-> ".csv",
      table |-> [header |-> <<"ID", "LIMIT_BAL", "AGE">>, rows |-> rs]] :
        rs \in {<<ConcurrentRow("12", "1")>>, <<ConcurrentRow("12", "abc")>>,
                <<ConcurrentRow("12", "0"), ConcurrentRow("7", "1")>>}}
    \cup {[extension |-> ".txt", table |-> [header |-> <<>>, rows |-> <<>>]]}

\* the call made inline: the coroutine keeps the event loop while it scores
CalledInline(f) == f

\* await asyncio.to_thread(...): the coroutine is suspended and the event loop
\* is free (0) while the worker thread runs the call
to_thread(f) == 0

\* the frame every worker is given taken from the first coroutine
SharedFrame(flights, f) == flights[1].frame

\* the frame handed to the worker of coroutine f: the coroutine's local
WorkerFrame(flights, f) == flights[f].frame

\* the coroutines whose score call is running on a worker thread
Scoring == {f \in Threads : flight[f].stage = "scoring"}

\* the handler runs and finishes without awaiting score
Answer(f, req, resp, audit) ==
    /\ flight' = [flight EXCEPT ![f] = [NoFlight EXCEPT !.stage = "done", !.request = req,
                                                        !.response = resp, !.audit = audit]]
    /\ behind' = [behind EXCEPT ![f] = Scoring]
    /\ UNCHANGED loop

\* the handler runs up to its await of asyncio.to_thread(self._model.score, frame)
Await(f, req, frame) ==
    /\ flight' = [flight EXCEPT ![f] = [NoFlight EXCEPT !.stage = "scoring", !.request = req,
                                                        !.frame = frame]]
    /\ behind' = [behind EXCEPT ![f] = Scoring]
    /\ loop' = to_thread(f)

\* the event loop can run a coroutine that serves no request yet
Startable(f) == phase = "serving" /\ loop = 0 /\ flight[f].stage = "idle"

\* controller predict_single and PredictionService.predict_single up to the await
StartSingle(f, body) ==
    /\ LET req == [NoRequest EXCEPT !.endpoint = "single", !.body = body]
       IN  IF ~DtoValid(body)
           THEN Answer(f, req, controller_predict_single(NoModel, body).response, NoAudit)
           ELSE Await(f, req, SingleFrame(model_dump(body)))
    /\ UNCHANGED <<disk, phase, SERVICE_INSTANCE, request, response, calls,
                   pc, built, got, constructed>>

\* controller predict_batch and PredictionService.predict_batch up to the await:
\* the file is parsed and the row count compared on the event loop
StartBatch(f, upload) ==
    /\ LET req == [NoRequest EXCEPT !.endpoint = "batch", !.upload = upload]
           read == _read_input_file(upload)
           limit == max_batch_rows(disk)
       IN  IF read.err # NoError
           THEN Answer(f, req,
                       Respond(Outcome(read.err, <<>>, FALSE, FALSE, 0, NoFrame),
                               "Batch prediction failed."),
                       Audit(Outcome(read.err, <<>>, FALSE, FALSE, 0, NoFrame)))
           ELSE IF ExceedsLimit(Len(read.dataframe.rows), limit)
           THEN Answer(f, req,
                       Respond(BatchTooLarge(read.dataframe, limit),
                               "Batch prediction failed."),
                       Audit(BatchTooLarge(read.dataframe, limit)))
           ELSE Await(f, req, read.dataframe)
    /\ UNCHANGED <<disk, phase, SERVICE_INSTANCE, request, response, calls,
                   pc, built, got, constructed>>

\* the worker thread: self._model.score(frame)
Score(f) ==
    /\ flight[f].stage = "scoring"
    /\ flight' = [flight EXCEPT ![f].stage = "scored",
                                ![f].scored = score(SERVICE_INSTANCE.model,
                                                    WorkerFrame(flight, f))]
    /\ UNCHANGED <<loop, behind, disk, phase, SERVICE_INSTANCE, request, response,
                   calls, pc, built, got, constructed>>

\* the coroutine resumes on the event loop: the except clauses of the service
\* and of the controller, and the response
Resume(f) ==
    /\ flight[f].stage = "scored"
    /\ loop \in {0, f}
    /\ LET out == IF flight[f].request.endpoint = "batch"
                  THEN AfterScoreBatch(flight[f].scored)
                  ELSE AfterScoreSingle(SERVICE_INSTANCE.model, flight[f].scored)
           fixed == IF flight[f].request.endpoint = "batch"
                    THEN "Batch prediction failed." ELSE "Prediction failed."
       IN  flight' = [flight EXCEPT ![f].stage = "done",
                                    ![f].response = Respond(out, fixed),
                                    ![f].audit = Audit(out)]
    /\ loop' = 0
    /\ behind' = [g \in Threads |-> behind[g] \ {f}]
    /\ UNCHANGED <<disk, phase, SERVICE_INSTANCE, request, response, calls,
                   pc, built, got, constructed>>

\* the response has been sent: the coroutine ends
Close(f) ==
    /\ flight[f].stage = "done"
    /\ flight' = [flight EXCEPT ![f] = NoFlight]
    /\ behind' = [behind EXCEPT ![f] = {}]
    /\ UNCHANGED <<loop, disk, phase, SERVICE_INSTANCE, request, response, calls,
                   pc, built, got, constructed>>

InitConcurrent ==
    /\ disk \in {Good, [Good EXCEPT !.estimator.raises = TRUE],
                  [Good EXCEPT !.max_batch_rows = 1]}
    /\ phase = "boot"
    /\ SERVICE_INSTANCE = None
    /\ request = NoRequest
    /\ response = NoResponse
    /\ calls = NoAudit
    /\ pc = [t \in Threads |-> "idle"]
    /\ built = [t \in Threads |-> None]
    /\ got = [t \in Threads |-> None]
    /\ constructed = 0
    /\ flight = [f \in Threads |-> NoFlight]
    /\ loop = 0
    /\ behind = [f \in Threads |-> {}]

NextConcurrent ==
    \/ Lifespan
    \/ \E f \in Threads : Startable(f) /\ \E body \in ConcurrentBodies : StartSingle(f, body)
    \/ \E f \in Threads : Startable(f) /\ \E upload \in ConcurrentUploads : StartBatch(f, upload)
    \/ \E f \in Threads : Score(f)
    \/ \E f \in Threads : Resume(f)
    \/ \E f \in Threads : Close(f)

SpecConcurrent == InitConcurrent /\ [][NextConcurrent]_vars

(***************************************************************************)
(* Signatures and column layouts: the service under signatures that declare *)
(* other dtypes, fed payloads whose columns come in either order, with and  *)
(* without an extra column.                                                *)
(***************************************************************************)
\* LIMIT_BAL declared a category
CategorySignature ==
    [BaseSignature EXCEPT !.dtypes = <<<<"LIMIT_BAL", "category">>, <<"AGE", "float">>>>]

\* no dtype declared for any column
UntypedSignature == [BaseSignature EXCEPT !.dtypes = <<>>]

\* a dtype the coercer does not know, as the first and as the last entry of the
\* dtype map, and on the identifier column, which is no expected column
UnsupportedFirst ==
    [BaseSignature EXCEPT !.dtypes = <<<<"LIMIT_BAL", "string">>, <<"AGE", "int">>>>]
UnsupportedLast ==
    [BaseSignature EXCEPT !.dtypes = <<<<"AGE", "int">>, <<"LIMIT_BAL", "string">>>>]
UnsupportedOnIdentifier ==
    [BaseSignature EXCEPT !.dtypes =
        <<<<"ID", "string">>, <<"LIMIT_BAL", "float">>, <<"AGE", "int">>>>]

Signatures ==
    {BaseSignature, SwappedSignature, CategorySignature, UntypedSignature,
     UnsupportedFirst, UnsupportedLast, UnsupportedOnIdentifier}

SignatureDeployments == {[Good EXCEPT !.signature = sig] : sig \in Signatures}

ColumnOrder == <<"ID", "LIMIT_BAL", "AGE", "EXTRA">>
Reverse(s) == [i \in DOMAIN s |-> s[Len(s) + 1 - i]]

\* every set of columns, in the order above and in the opposite order
ColumnHeaders ==
    {SetToSeq(S, ColumnOrder) : S \in SUBSET Range(ColumnOrder)}
    \cup {SetToSeq(S, Reverse(ColumnOrder)) : S \in SUBSET Range(ColumnOrder)}

ColumnTextOf(c) ==
    CASE c = "ID" -> {"7"}
      [] c = "LIMIT_BAL" -> {"1", ""}
      [] c = "AGE" -> {"1", "abc"}
      [] OTHER -> {"0", ""}

RECURSIVE ColumnRows(_)
\* the rows over a header: one text of its column in each cell
ColumnRows(header) ==
    IF header = <<>> THEN {<<>>}
    ELSE {[c \in Range(header) |-> IF c = Head(header) THEN t ELSE r[c]] :
            t \in ColumnTextOf(Head(header)), r \in ColumnRows(Tail(header))}

ColumnUploads ==
    UNION {{[extension |-> ".csv", table |-> [header |-> h, rows |-> rs]] :
              rs \in UNION {[1..n -> ColumnRows(h)] : n \in 0..MaxRows}} :
           h \in ColumnHeaders}

ColumnBodies ==
    UNION {{[keys |-> h, values |-> [c \in Range(h) |-> JsonOf(r[c])]] :
              r \in ColumnRows(h)} : h \in ColumnHeaders}

InitSignatures ==
    /\ disk \in SignatureDeployments
    /\ phase = "boot"
    /\ SERVICE_INSTANCE = None
    /\ request = NoRequest
    /\ response = NoResponse
    /\ calls = NoAudit
    /\ pc = [t \in Threads |-> "idle"]
    /\ built = [t \in Threads |-> None]
    /\ got = [t \in Threads |-> None]
    /\ constructed = 0
    /\ flight = [f \in Threads |-> NoFlight]
    /\ loop = 0
    /\ behind = [f \in Threads |-> {}]

NextSignatures ==
    \/ Lifespan
    \/ Accepting /\ \E body \in ColumnBodies : PredictSingle(body)
    \/ Accepting /\ \E upload \in ColumnUploads : PredictBatch(upload)
    \/ Complete

SpecSignatures == InitSignatures /\ [][NextSignatures]_vars

(***************************************************************************)
(* Properties.                                                             *)
(***************************************************************************)
\* the model of the running service, and the frame its score was handed
Model == SERVICE_INSTANCE.model
RequestFrame ==
    IF request.endpoint = "batch" THEN read_csv(request.upload.table)
    ELSE [columns |-> model_dump(request.body).keys,
          rows |-> <<model_dump(request.body).values>>]

CellBlank(c) == isnull(c) \/ (c.kind = "str" /\ IsBlank(c.txt))
CellUnparsable(c) == c.kind = "str" /\ ~IsBlank(c.txt) /\ ~IsNumeric(c.txt)

\* the six checks of the validation sequence, each stated on the raw frame
Fails1(m, f) == m.id_column \notin Range(f.columns)
Fails2(m, f) == "default" \in Range(f.columns)
Fails3(m, f) == \E c \in Range(m.expected_columns) : c \notin Range(f.columns)
Fails4(m, f) ==
    \E k \in DOMAIN m.dtype_map :
        LET col == m.dtype_map[k][1]
            dt == m.dtype_map[k][2]
        IN  /\ col \in Range(m.expected_columns)
            /\ \/ ~(StartsWithInt(dt) \/ StartsWithFloat(dt) \/ dt = "category")
               \/ /\ StartsWithInt(dt) \/ StartsWithFloat(dt)
                  /\ \E i \in DOMAIN f.rows : CellUnparsable(f.rows[i][col])
               \/ /\ StartsWithInt(dt)
                  /\ \E i \in DOMAIN f.rows : CellBlank(f.rows[i][col])
Fails5(m, f) ==
    \E i \in DOMAIN f.rows : \E c \in Range(m.expected_columns) : CellBlank(f.rows[i][c])
Fails6(m, f) == \E i \in DOMAIN f.rows : isnull(f.rows[i][m.id_column])

FirstFailing(m, f) ==
    IF Fails1(m, f) THEN 1 ELSE IF Fails2(m, f) THEN 2 ELSE IF Fails3(m, f) THEN 3
    ELSE IF Fails4(m, f) THEN 4 ELSE IF Fails5(m, f) THEN 5
    ELSE IF Fails6(m, f) THEN 6 ELSE 0

\* the check an exception of the validator belongs to (0: none of them)
CheckOf(e) ==
    CASE e.msg = "Missing identifier column" -> 1
      [] e.msg = "Column 'default' is not allowed" -> 2
      [] e.msg = "Missing columns" -> 3
      [] e.msg \in {"Unable to parse string", "Unsupported dtype",
                    "Cannot convert non-finite values to integer"} -> 4
      [] e.msg = "Input payload contains missing values" -> 5
      [] e.msg = "Identifier column contains missing values" -> 6
      [] OTHER -> 0

\* C1: _prepare_features runs its checks in the order identifier column, label
\* column, expected columns, dtype coercion, nulls in expected columns, null
\* identifier, and the error reported is that of the first check that fails.
C1_FirstFailingCheckReported ==
    calls.validated => CheckOf(calls.err) = FirstFailing(Model, RequestFrame)

\* a payload without the identifier column and without an expected column
C1_Witness ==
    /\ calls.validated
    /\ Fails1(Model, RequestFrame) /\ Fails3(Model, RequestFrame)
    /\ response.status = 422 /\ response.detail = "Missing identifier column"

\* the keys or the header of the request
RequestColumns ==
    IF request.endpoint = "batch" THEN Range(request.upload.table.header)
    ELSE Range(request.body.keys)

\* C2: a request that carries a 'default' field or column is always rejected as
\* client input and no record is scored, on the single and on the batch endpoint.
C2_LabelColumnAlwaysRejected ==
    (request # NoRequest /\ "default" \in RequestColumns)
        => (response.status = 422 /\ response.records = <<>> /\ ~calls.estimated)

\* a batch request that reaches the validator with every column in place: a
\* supported file within the limit, with the identifier and the expected
\* columns, without the label column, and with no empty identifier
Table == request.upload.table
CleanBatch ==
    /\ request.endpoint = "batch"
    /\ request.upload.extension = ".csv"
    /\ Len(Table.rows) <= max_batch_rows(disk)
    /\ Model.id_column \in Range(Table.header)
    /\ "default" \notin Range(Table.header)
    /\ \A c \in Range(Model.expected_columns) : c \in Range(Table.header)
    /\ \A i \in DOMAIN Table.rows : Table.rows[i][Model.id_column] # ""

\* the expected columns the signature declares int* or float*
NumericColumns ==
    {Model.dtype_map[k][1] : k \in {j \in DOMAIN Model.dtype_map :
        /\ Model.dtype_map[j][1] \in Range(Model.expected_columns)
        /\ StartsWithInt(Model.dtype_map[j][2]) \/ StartsWithFloat(Model.dtype_map[j][2])}}

\* C3: an empty or whitespace-only text in a required numeric column is rejected
\* as a missing value (a client-input rejection with the missing-values error)
\* and no record is returned; the blank cells are the batch's only defect.
C3_BlankNumericCellIsMissingValue ==
    ( /\ CleanBatch
      /\ \A i \in DOMAIN Table.rows : \A c \in NumericColumns :
             IsBlank(Table.rows[i][c]) \/ IsNumeric(Table.rows[i][c])
      /\ \E i \in DOMAIN Table.rows : \E c \in NumericColumns : IsBlank(Table.rows[i][c]) )
    => ( /\ response.status = 422
         /\ response.detail = "Input payload contains missing values"
         /\ response.records = <<>> )

\* the numeric columns of the batch with a text that is no number
UnparsableColumns ==
    {c \in NumericColumns :
        \E i \in DOMAIN Table.rows :
            ~IsBlank(Table.rows[i][c]) /\ ~IsNumeric(Table.rows[i][c])}

\* C4: a cell of an int* or float* column that does not parse as a number makes
\* the request fail with a validation error that names the column, reported as a
\* client-input rejection; the unparsable cells are the batch's only defect.
C4_UnparsableCellIsClientRejection ==
    ( /\ CleanBatch
      /\ \A i \in DOMAIN Table.rows : \A c \in NumericColumns : ~IsBlank(Table.rows[i][c])
      /\ UnparsableColumns # {} )
    => ( /\ response.status = 422
         /\ \E c \in UnparsableColumns : c \in Range(response.names) )

\* the threshold the metadata document declares, in quarters
DeclaredThreshold ==
    IF disk.threshold.kind = "str" THEN FloatOfText(disk.threshold.txt)
    ELSE disk.threshold.num

\* C5: every record returned satisfies is_default = (probability >= threshold),
\* the comparison being non-strict, with the threshold fixed when the artifacts
\* were loaded; a single response reports that same threshold; the threshold
\* of the running service never differs from the loaded one.
C5_IsDefaultIsProbabilityAtLeastThreshold ==
    /\ phase = "serving" => Model.threshold = DeclaredThreshold
    /\ \A i \in DOMAIN response.records :
          /\ response.records[i].is_default
                = (response.records[i].probability >= DeclaredThreshold)
          /\ request.endpoint = "single"
                => response.records[i].threshold = DeclaredThreshold

\* a record whose probability equals the threshold, flagged as default
C5_Witness ==
    /\ response.status = 200
    /\ \E i \in DOMAIN response.records :
          /\ response.records[i].probability = DeclaredThreshold
          /\ response.records[i].is_default

\* the identifier of the i-th input row, in string form
InputId(i) ==
    IF request.endpoint = "batch" THEN Table.rows[i]["ID"]
    ELSE IF "ID" \notin Range(request.body.keys) THEN "1"
    ELSE ToStr(request.body.values["ID"].num)
InputRowCount == IF request.endpoint = "batch" THEN Len(Table.rows) ELSE 1

\* the positive-class probability the binary estimator gives the i-th input row
InputNumber(i, c) ==
    IF request.endpoint = "batch" THEN ParseNumber(Table.rows[i][c])
    ELSE request.body.values[c].num
InputProbability(i) == InputNumber(i, "LIMIT_BAL") + InputNumber(i, "AGE")

\* C6: an accepted request returns exactly one record per input row, in input
\* order, the i-th record carrying the string form of the i-th row's identifier
\* (and the probability of that row).
C6_OneRecordPerRowInOrder ==
    response.status = 200 =>
        /\ Len(response.records) = InputRowCount
        /\ \A i \in DOMAIN response.records :
              /\ response.records[i].id = InputId(i)
              /\ disk.estimator.n_classes = 2
                    => response.records[i].probability = InputProbability(i)

\* an accepted batch of two rows with different identifiers and probabilities
C6_Witness ==
    /\ response.status = 200
    /\ request.endpoint = "batch"
    /\ Len(response.records) = 2
    /\ response.records[1].id = "12" /\ response.records[2].id = "7"
    /\ response.records[1].probability # response.records[2].probability

\* C7: predict_batch compares the row count with the configured maximum before
\* the validator or the estimator runs: a batch above the limit is rejected as
\* BatchTooLarge naming the count and the limit with nothing validated or scored,
\* whatever its columns; a batch of exactly the limit is not rejected by the guard.
C7_BatchGuardBeforeValidation ==
    (request.endpoint = "batch" /\ request.upload.extension = ".csv") =>
        /\ Len(Table.rows) > max_batch_rows(disk) =>
              /\ response.status = 422
              /\ response.detail = "Batch size exceeds limit"
              /\ response.names = <<ToStr(Len(Table.rows)), ToStr(max_batch_rows(disk))>>
              /\ response.records = <<>>
              /\ ~calls.validated /\ ~calls.estimated
        /\ Len(Table.rows) <= max_batch_rows(disk) =>
              /\ response.detail # "Batch size exceeds limit"
              /\ calls.validated

\* a batch above the limit that also lacks the identifier column
C7_Witness ==
    /\ request.endpoint = "batch" /\ request.upload.extension = ".csv"
    /\ Len(Table.rows) = max_batch_rows(disk) + 1
    /\ "ID" \notin Range(Table.header)
    /\ response.detail = "Batch size exceeds limit"

\* a batch of exactly the limit that is scored
C7_WitnessAtLimit ==
    /\ request.endpoint = "batch"
    /\ Len(Table.rows) = max_batch_rows(disk)
    /\ response.status = 200

\* a deployment whose artifacts must not load
Broken(d) ==
    \/ ~d.model_exists \/ ~d.signature_exists \/ ~d.metadata_exists
    \/ isnull(d.threshold)
    \/ d.threshold.kind = "str" /\ ~IsFloatText(d.threshold.txt)

\* C8: loading fails with a classified model-load error (ModelError) and leaves
\* no model instance whenever an artifact path does not exist or the metadata
\* threshold is missing or not coercible to a float.
C8_BrokenArtifactsFailClassified ==
    (phase # "boot" /\ Broken(disk)) =>
        /\ phase = "failed"
        /\ SERVICE_INSTANCE = None
        /\ calls.err.cls = "ModelError"

\* C9: the artifacts are loaded once per process: under any interleaving of
\* get_prediction_service calls PredictionService is constructed at most once
\* and all requests are served by the same instance.
C9_ServiceConstructedOnce ==
    /\ constructed <= 1
    /\ \A t1 \in Threads, t2 \in Threads :
          (got[t1] # None /\ got[t2] # None) => got[t1] = got[t2]


\* C10: an estimator whose probability output has not exactly two columns makes
\* scoring fail with the classified UnsupportedEstimator error (a ModelError):
\* no probabilities are returned for one column or for three or more.
C10_NonBinaryEstimatorRejected ==
    (calls.estimated /\ disk.estimator.n_classes # 2 /\ ~disk.estimator.raises) =>
        /\ response.records = <<>>
        /\ calls.err.cls = "ModelError"

\* the fixed text of the internal failure of the endpoint of the request
FixedText == IF request.endpoint = "batch" THEN "Batch prediction failed."
             ELSE "Prediction failed."

\* the service call ended with an exception that is no validation-class
\* rejection (those reach the controller as PredictionError)
Unclassified == request # NoRequest /\ calls.err.cls \notin {"none", "PredictionError"}

\* C11: an exception raised by the estimator's probability call, and any other
\* exception that is no validation-class rejection, ends the request as an
\* internal failure (500) whose text is the fixed text of the endpoint with no
\* detail of the exception; it is never a client-input rejection, the estimator
\* is not invoked again, and no record is returned; on both endpoints.
C11_UnclassifiedIsInternalFailure ==
    /\ (request # NoRequest /\ calls.estimated /\ disk.estimator.raises) => Unclassified
    /\ Unclassified =>
          /\ response.status = 500
          /\ response.detail = FixedText
          /\ response.detail # calls.err.msg
          /\ response.names = <<>>
          /\ response.records = <<>>
          /\ calls.invocations <= 1

\* a batch of two valid rows whose scoring the estimator ends with an exception
C11_Witness ==
    /\ request.endpoint = "batch"
    /\ Len(request.upload.table.rows) = 2
    /\ calls.estimated /\ calls.invocations = 1
    /\ calls.err.cls = "RuntimeError"
    /\ response.status = 500

\* the columns of a request that are neither expected nor the identifier nor
\* the label column
IsExtra(c) ==
    c \notin Range(Model.expected_columns) /\ c # Model.id_column /\ c # "default"

\* the request with its extra columns removed, and what the endpoint answers to it
WithoutExtras(columns) == SelectSeq(columns, LAMBDA c : ~IsExtra(c))
StrippedUpload ==
    [extension |-> request.upload.extension,
     table |-> [header |-> WithoutExtras(Table.header),
                rows |-> [i \in DOMAIN Table.rows |->
                            [c \in Range(WithoutExtras(Table.header)) |->
                                Table.rows[i][c]]]]]
StrippedBody ==
    [keys |-> WithoutExtras(request.body.keys),
     values |-> [c \in Range(WithoutExtras(request.body.keys)) |-> request.body.values[c]]]
StrippedAnswer ==
    IF request.endpoint = "batch"
    THEN controller_predict_batch(Model, StrippedUpload, max_batch_rows(disk))
    ELSE controller_predict_single(Model, StrippedBody)

\* C12: extra columns (neither expected nor the identifier, and not 'default')
\* are accepted and ignored: the outcome of a payload, its records or its
\* error, and the frame handed to the estimator, are those of the same payload
\* with the extra columns removed.
C12_ExtraColumnsIgnored ==
    (request # NoRequest /\ \E c \in RequestColumns : IsExtra(c)) =>
        /\ response = StrippedAnswer.response
        /\ calls = StrippedAnswer.audit

\* a scored batch with an extra column, one of its cells empty
C12_Witness ==
    /\ request.endpoint = "batch"
    /\ "EXTRA" \in Range(Table.header)
    /\ \E i \in DOMAIN Table.rows : Table.rows[i]["EXTRA"] = ""
    /\ response.status = 200
    /\ Len(response.records) = 2

\* C13: whenever the estimator's probability operation is invoked, the frame it
\* is handed has exactly the expected columns in the signature's order (no
\* identifier, no extra column, no reordering) and no null in any cell,
\* whatever the payload and the order of its columns.
C13_EstimatorFrameIsCleanAndOrdered ==
    calls.estimated =>
        /\ calls.invocations >= 1
        /\ calls.features.columns = Model.expected_columns
        /\ Len(calls.features.rows) = InputRowCount
        /\ \A i \in DOMAIN calls.features.rows :
              /\ DOMAIN calls.features.rows[i] = Range(Model.expected_columns)
              /\ \A c \in Range(Model.expected_columns) :
                    ~isnull(calls.features.rows[i][c])

\* the estimator invoked on a batch whose columns come in the opposite order,
\* with an extra column before them
C13_Witness ==
    /\ request.endpoint = "batch"
    /\ Table.header = <<"EXTRA", "AGE", "LIMIT_BAL", "ID">>
    /\ Len(Table.rows) = 2
    /\ calls.estimated
    /\ calls.features.columns = <<"LIMIT_BAL", "AGE">>

\* the signature declares, for some column, a dtype other than int*, float*
\* or category
DeclaresUnsupportedDtype ==
    \E k \in DOMAIN Model.dtype_map :
        ~( \/ StartsWithInt(Model.dtype_map[k][2])
           \/ StartsWithFloat(Model.dtype_map[k][2])
           \/ Model.dtype_map[k][2] = "category" )

\* the request reached the validator and passed its column-presence checks
PassesColumnChecks ==
    /\ calls.validated
    /\ ~Fails1(Model, RequestFrame)
    /\ ~Fails2(Model, RequestFrame)
    /\ ~Fails3(Model, RequestFrame)

\* C16: under a signature that declares a dtype other than int*, float* or
\* category, whichever column carries it and wherever it stands in the dtype
\* map, every request that passes the column-presence checks is rejected with
\* the unsupported-dtype validation error and none is scored.
C16_UnsupportedDtypeAlwaysRejected ==
    (DeclaresUnsupportedDtype /\ PassesColumnChecks) =>
        /\ response.status = 422
        /\ response.detail = "Unsupported dtype"
        /\ response.records = <<>>
        /\ ~calls.estimated

\* what the endpoint answers to a request served alone
AloneAnswer(req) ==
    IF req.endpoint = "batch"
    THEN controller_predict_batch(Model, req.upload, max_batch_rows(disk))
    ELSE controller_predict_single(Model, req.body)

\* every finished request has the response, and has made the calls, of the same
\* request served alone
OutcomeAsAlone ==
    \A f \in Threads :
        flight[f].stage = "done" =>
            /\ flight[f].response = AloneAnswer(flight[f].request).response
            /\ flight[f].audit = AloneAnswer(flight[f].request).audit

\* two finished requests with the same payload have the same response
SameRowSameScore ==
    \A f \in Threads, g \in Threads :
        (flight[f].stage = "done" /\ flight[g].stage = "done"
            /\ flight[f].request = flight[g].request)
        => flight[f].response = flight[g].response

\* a step of a request in flight changes the state of at most one request and
\* leaves the shared service and its artifacts as they were
OwnStateOnly ==
    /\ Cardinality({f \in Threads : flight'[f] # flight[f]}) <= 1
    /\ phase = "serving" => (SERVICE_INSTANCE' = SERVICE_INSTANCE /\ disk' = disk)

\* C14: the pipeline of a request is independent of the other requests in
\* flight: under every interleaving of predict_single and predict_batch calls
\* on the shared service each request's outcome is the one the payload has when
\* served alone, no request writes state another one reads, and the same row
\* scored twice has the same probability and is_default.
C14_RequestsAreIndependent ==
    [](OutcomeAsAlone /\ SameRowSameScore) /\ [][OwnStateOnly]_vars

\* a batch scored and answered while an earlier single request, whose score has
\* returned, waits to resume
C14_Witness ==
    /\ flight[1].stage = "scored" /\ flight[1].request.endpoint = "single"
    /\ flight[2].stage = "done" /\ flight[2].request.endpoint = "batch"
    /\ 1 \in behind[2]
    /\ flight[2].response.status = 200 /\ Len(flight[2].response.records) = 2

\* C15: every scoring invocation of predict_single and predict_batch runs on a
\* worker thread, never on the event loop: while a request is being scored the
\* event loop is free to start and to complete other requests.
C15_ScoringOffTheEventLoop ==
    Scoring # {} => (loop = 0 /\ \A f \in Scoring : loop # f)

\* a request started and answered while an earlier one is still being scored
C15_Witness ==
    /\ flight[1].stage = "scoring"
    /\ flight[2].stage = "done" /\ flight[2].response.status = 200
    /\ 1 \in behind[2]
    /\ loop = 0

====
